---------------------------- MODULE Spec2Model ----------------------------
(***************************************************************************)
(* Model of the Bluetooth people-counting pipeline of                      *)
(* src/possible_algorithm.py (History Store, distance conversion, chained  *)
(* grouping, per-cycle orchestration) and of the density grouper of        *)
(* src/Naman/dbscanDetection.py.                                           *)
(*                                                                         *)
(* Numbers.  RSSI samples are integers (dBm).  A mean of a history is kept *)
(* exact as the pair <<sum, len>>.  Distances are integers in hundredths   *)
(* of a metre, which is the resolution round(distance, 2) leaves.          *)
(***************************************************************************)
EXTENDS Integers, Sequences, FiniteSets, TLC

\* ------------------------------------------------------------ constants

\* possible_algorithm.py, lines 13-19 and the literal of line 50.
RSSI_AT_ONE == 50
PATH_LOSS_EXP == 2
DISTANCE_LIMIT == 20
\* DISTANCE_TOLERANCE = 0.2 m, in hundredths of a metre.
DISTANCE_TOLERANCE == 20
MIN_NON_ZERO_RSSI == 5
HISTORY_LIMIT == 10
\* One metre in the unit of the model's distances.
CM == 100

\* device.rssi == None.  Real samples are dBm values <= 0, so the value 1
\* stands outside them; arithmetic on it raises (see HasNone).
NoneRssi == 1
\* The sentinel mark_missing_devices appends.
MISSING == 0

\* ------------------------------------------------------------ bounds

Addresses == {"a1", "a2"}
\* In range (-60: 3.16 m), weak and out of range (-90: 100 m), and the
\* absent reading.
RssiValues == {-60, -90, NoneRssi}
MaxCycles == 3

\* ------------------------------------------------------------ helpers

RECURSIVE SeqSum(_)
SeqSum(s) == IF s = <<>> THEN 0 ELSE Head(s) + SeqSum(Tail(s))

\* sum(...) over a list holding None raises TypeError.
HasNone(s) == \E i \in 1..Len(s) : s[i] = NoneRssi

Range(s) == {s[i] : i \in 1..Len(s)}

RECURSIVE Pow10Int(_)
Pow10Int(k) == IF k = 0 THEN 1 ELSE 10 * Pow10Int(k - 1)

\* ------------------------------------------------- calculate_distance

\* 10^(d/10), 10^(d/100), 10^(d/1000) for a digit d, scaled by 10^6.
Pow10Tenths ==
    <<1000000, 1258925, 1584893, 1995262, 2511886,
      3162278, 3981072, 5011872, 6309573, 7943282>>
Pow10Hundredths ==
    <<1000000, 1023293, 1047129, 1071519, 1096478,
      1122018, 1148154, 1174898, 1202264, 1230269>>
Pow10Thousandths ==
    <<1000000, 1002305, 1004616, 1006932, 1009253,
      1011579, 1013911, 1016249, 1018591, 1020939>>

\* a * b / 10^6, rounded, for a, b < 10^7, without leaving 32 bits.
MulFix(a, b) ==
    LET a1 == a \div 1000
        a0 == a % 1000
        b1 == b \div 1000
        b0 == b % 1000
    IN  a1 * b1 + (a1 * b0 + a0 * b1 + (a0 * b0 + 500) \div 1000 + 500) \div 1000

\* 10^(fm / 10^6) scaled by 10^6, for 0 <= fm < 10^6: the three leading
\* digits of the exponent from the tables, the rest e by
\* 10^e = 1 + e ln 10 + (e ln 10)^2 / 2.
Pow10Frac(fm) ==
    LET d1 == fm \div 100000
        d2 == (fm \div 10000) % 10
        d3 == (fm \div 1000) % 10
        t  == ((fm % 1000) * 230259 + 50000) \div 100000
        last == 1000000 + t + (t * t + 1000000) \div 2000000
    IN  MulFix(MulFix(MulFix(Pow10Tenths[d1 + 1], Pow10Hundredths[d2 + 1]),
                      Pow10Thousandths[d3 + 1]), last)

\* round(10 ** ((rssi_at_1m - rssi) / (10 * path_loss_exponent)), 2) in
\* hundredths of a metre, for rssi = sum / n with rssi_at_1m = -RSSI_AT_ONE.
\* The exponent of the result in hundredths is 2 + (-RSSI_AT_ONE - rssi) /
\* (10 * PATH_LOSS_EXP) = num / den.  The fixed-point value is within about
\* 2e-6 of the real one, so it rounds as the float does unless the real
\* distance lies that close to a rounding tie.
calculate_distance(sum, n) ==
    LET den == 10 * PATH_LOSS_EXP * n
        num == 2 * den - RSSI_AT_ONE * n - sum
        e   == num \div den
        fm  == ((num % den) * 1000000 + den \div 2) \div den
        m   == IF fm >= 1000000 THEN 10000000 ELSE Pow10Frac(fm)
        div == Pow10Int(6 - e)
    IN  (m + div \div 2) \div div

\* 10 ** (num / den) in millionths of a metre, for -6 <= num / den < 3;
\* within 2e-6 of the float's value, relative.
Pow10Micro(num, den) ==
    LET e  == num \div den
        fm == ((num % den) * 1000000 + den \div 2) \div den
        m  == IF fm >= 1000000 THEN 10000000 ELSE Pow10Frac(fm)
    IN  IF e >= 0 THEN m * Pow10Int(e)
        ELSE (m + Pow10Int(0 - e) \div 2) \div Pow10Int(0 - e)

\* calculate_distance of bluetoothDetection.py with its defaults:
\* 10 ** ((rssi_at_1m - rssi) / (15 * path_loss_exponent)), not rounded,
\* in millionths of a metre.
BD_RSSI_AT_1M == -50
BD_PATH_LOSS_EXP == 3
BD_EXPONENT_FACTOR == 15
bluetoothDetection_calculate_distance(rssi) ==
    Pow10Micro(BD_RSSI_AT_1M - rssi, BD_EXPONENT_FACTOR * BD_PATH_LOSS_EXP)

\* ------------------------------------------------------ History Store

\* A slip in the eviction: pop() drops the newest sample, not the oldest.
TrimNewest(s) ==
    IF Len(s) > HISTORY_LIMIT THEN SubSeq(s, 1, Len(s) - 1) ELSE s

\* rssi_history[address].pop(0) when the list is longer than 10.
TrimOldest(s) == IF Len(s) > HISTORY_LIMIT THEN Tail(s) ELSE s

\* update_rssi_history: the store after the call.  The sample is appended
\* and the list trimmed before the mean is computed, so the mutation stays
\* when the mean raises.
update_rssi_history(hist, address, rssi) ==
    LET old == IF address \in DOMAIN hist THEN hist[address] ELSE <<>>
        new == TrimOldest(Append(old, rssi))
    IN  [a \in (DOMAIN hist) \cup {address} |->
            IF a = address THEN new ELSE hist[a]]

\* The value update_rssi_history returns: sum / len, as <<sum, len>>.
Mean(s) == <<SeqSum(s), Len(s)>>

\* A sentinel appended to every tracked address, detected or not.
MarkEveryDevice(hist, active_devices) ==
    [a \in DOMAIN hist |-> Append(hist[a], MISSING)]

\* mark_missing_devices: a 0 appended for every tracked address that is
\* not active; the list is not trimmed here.
mark_missing_devices(hist, active_devices) ==
    [a \in DOMAIN hist |->
        IF a \in active_devices THEN hist[a] ELSE Append(hist[a], MISSING)]


\* --------------------------------------------- Chained-Threshold Grouper

Abs(x) == IF x < 0 THEN 0 - x ELSE x

\* distances.sort(): ascending, by insertion.
RECURSIVE Insert(_, _)
Insert(x, s) ==
    IF s = <<>> THEN <<x>>
    ELSE IF x <= Head(s) THEN <<x>> \o s
    ELSE <<Head(s)>> \o Insert(x, Tail(s))

RECURSIVE Sort(_)
Sort(s) == IF s = <<>> THEN <<>> ELSE Insert(Head(s), Sort(Tail(s)))

\* A slip in the comparison: current_group[0], the group's first element.
AnchorFirst(current_group) == current_group[1]

\* current_group[-1]: the element a new distance is compared with.
Anchor(current_group) == current_group[Len(current_group)]

\* The for loop of group_devices_by_proximity from index i on, and the
\* closing "if current_group: groups.append(current_group)".
RECURSIVE GroupLoop(_, _, _, _)
GroupLoop(distances, i, groups, current_group) ==
    IF i > Len(distances)
    THEN IF current_group # <<>> THEN Append(groups, current_group) ELSE groups
    ELSE LET distance == distances[i]
         IN  IF current_group = <<>>
                \/ Abs(distance - Anchor(current_group)) <= DISTANCE_TOLERANCE
             THEN GroupLoop(distances, i + 1, groups,
                            Append(current_group, distance))
             ELSE GroupLoop(distances, i + 1, Append(groups, current_group),
                            <<distance>>)

group_devices_by_proximity(distances) == GroupLoop(Sort(distances), 1, <<>>, <<>>)

\* ------------------------------------------------ Density-Based Grouper

\* A neighbourhood that leaves out the points at exactly eps.
NeighborhoodInside(data, i, eps) ==
    {j \in 1..Len(data) : Abs(data[i] - data[j]) < eps}

\* radius_neighbors of point i: every point within eps, i itself included.
Neighborhood(data, i, eps) ==
    {j \in 1..Len(data) : Abs(data[i] - data[j]) <= eps}

\* A core test that leaves the point itself out of its neighbourhood.
IsCoreOthers(data, i, eps, min_samples) ==
    Cardinality(Neighborhood(data, i, eps) \ {i}) >= min_samples

\* DBSCAN's core samples: the neighbourhood, the point included, holds at
\* least min_samples points.
IsCore(data, i, eps, min_samples) ==
    Cardinality(Neighborhood(data, i, eps)) >= min_samples

\* The neighbours of i in ascending index order, as pushed on the stack.
RECURSIVE SetToSeq(_)
SetToSeq(S) ==
    IF S = {} THEN <<>>
    ELSE LET m == CHOOSE x \in S : \A y \in S : x <= y
         IN  <<m>> \o SetToSeq(S \ {m})

\* The inner loop of DBSCAN for one seed: label the point, push its
\* unlabelled neighbours if it is core, pop the next point from the stack.
RECURSIVE Expand(_, _, _, _, _, _, _)
Expand(data, eps, min_samples, labels, i, stack, label_num) ==
    LET fresh == labels[i] = -1
        labels1 == IF fresh THEN [labels EXCEPT ![i] = label_num] ELSE labels
        pushed == IF fresh /\ IsCore(data, i, eps, min_samples)
                  THEN SetToSeq({v \in Neighborhood(data, i, eps) :
                                    labels1[v] = -1})
                  ELSE <<>>
        stack1 == stack \o pushed
    IN  IF stack1 = <<>> THEN labels1
        ELSE Expand(data, eps, min_samples, labels1, stack1[Len(stack1)],
                    SubSeq(stack1, 1, Len(stack1) - 1), label_num)

\* The outer loop of DBSCAN: every unlabelled core point seeds a cluster.
RECURSIVE DbscanLabels(_, _, _, _, _, _)
DbscanLabels(data, eps, min_samples, labels, i, label_num) ==
    IF i > Len(data) THEN labels
    ELSE IF labels[i] # -1 \/ ~IsCore(data, i, eps, min_samples)
    THEN DbscanLabels(data, eps, min_samples, labels, i + 1, label_num)
    ELSE DbscanLabels(data, eps, min_samples,
                      Expand(data, eps, min_samples, labels, i, <<>>, label_num),
                      i + 1, label_num + 1)

Max(a, b) == IF a >= b THEN a ELSE b

group_devices_by_dbscan(distances, eps, min_samples) ==
    IF distances = <<>> THEN 0
    ELSE LET labels == DbscanLabels(distances, eps, min_samples,
                                    [i \in 1..Len(distances) |-> -1], 1, 0)
             num_people == Cardinality(Range(labels))
                           - (IF -1 \in Range(labels) THEN 1 ELSE 0)
         IN  Max(num_people, 1)

\* ------------------------------------------- estimate_users_from_history

\* sum(1 for rssi in rssi_values if rssi != 0); None counts as non-zero.
NonZeroCount(rssi_values) ==
    Cardinality({i \in 1..Len(rssi_values) : rssi_values[i] # 0})

\* The addresses whose history holds enough non-zero samples to be used.
Eligible(hist) ==
    {a \in DOMAIN hist : NonZeroCount(hist[a]) >= MIN_NON_ZERO_RSSI}

\* distance < DISTANCE_LIMIT, the test of lines 87 and 118 (calculate_distance
\* never returns None for a numeric mean).
InRange(distance) == distance < DISTANCE_LIMIT * CM

\* The distances the loop of lines 82-88 collects over the addresses of S.
\* The dictionary's iteration order is not modelled: the list is sorted
\* before it is used.
RECURSIVE HistoryDistances(_, _)
HistoryDistances(hist, S) ==
    IF S = {} THEN <<>>
    ELSE LET a == CHOOSE x \in S : TRUE
             m == Mean(hist[a])
             distance == calculate_distance(m[1], m[2])
             rest == HistoryDistances(hist, S \ {a})
         IN  IF InRange(distance) THEN <<distance>> \o rest ELSE rest

\* estimate_users_from_history: raises when an eligible history holds None,
\* else the groups over the eligible in-range distances.
estimate_users_from_history(hist) ==
    IF \E a \in Eligible(hist) : HasNone(hist[a])
    THEN [raised |-> TRUE, groups |-> <<>>]
    ELSE [raised |-> FALSE,
          groups |-> group_devices_by_proximity(
                         HistoryDistances(hist, Eligible(hist)))]

\* --------------------------------------------------------- count_devices

\* The for loop of lines 114-119 from device i on.  A device whose history
\* holds None after the append makes update_rssi_history raise: the loop
\* ends there, with the append kept.
RECURSIVE ScanLoop(_, _, _)
ScanLoop(st, devices, i) ==
    IF i > Len(devices) \/ st.raised THEN st
    ELSE LET device == devices[i]
             hist1 == update_rssi_history(st.hist, device.address, device.rssi)
             active1 == st.active_devices \cup {device.address}
         IN  IF HasNone(hist1[device.address])
             THEN [st EXCEPT !.hist = hist1, !.active_devices = active1,
                             !.raised = TRUE]
             ELSE LET avg_rssi == Mean(hist1[device.address])
                      distance == calculate_distance(avg_rssi[1], avg_rssi[2])
                  IN  ScanLoop(
                        [st EXCEPT !.hist = hist1, !.active_devices = active1,
                                   !.distances =
                                       IF InRange(distance)
                                       THEN Append(@, distance) ELSE @],
                        devices, i + 1)

\* count_devices once the scan has returned `devices`: the store, the
\* distances handed to the grouper, the counts printed and how the call
\* ended.  people and users are <<n>> when printed, <<>> when not.
count_devices(hist, devices) ==
    LET st == ScanLoop([hist |-> hist, distances |-> <<>>,
                        active_devices |-> {}, raised |-> FALSE], devices, 1)
    IN  IF st.raised
        THEN [hist |-> st.hist, distances |-> st.distances, groups |-> <<>>,
              people |-> <<>>, users |-> <<>>, outcome |-> "aborted"]
        ELSE LET hist2 == mark_missing_devices(st.hist, st.active_devices)
                 groups == group_devices_by_proximity(st.distances)
                 est == estimate_users_from_history(hist2)
             IN  [hist |-> hist2, distances |-> st.distances,
                  groups |-> groups, people |-> <<Len(groups)>>,
                  users |-> IF est.raised THEN <<>> ELSE <<Len(est.groups)>>,
                  outcome |-> IF est.raised THEN "estimate_failed" ELSE "ok"]

\* ------------------------------------------------------------- state

VARIABLES
    rssi_history,   \* address -> list of samples (the global of line 24)
    pc,             \* continuous_count: "scan" or "sleep"
    cycle,          \* count_devices calls so far
    devices,        \* what the last scan returned
    distances,      \* the distances last handed to a grouper
    groups,         \* the groups last computed by group_devices_by_proximity
    people,         \* <<n>>: the people count printed by the last cycle
    users,          \* <<n>>: the history-based estimate printed
    outcome,        \* how the last count_devices call ended
    prev_outcome,   \* how the call before it ended
    prev_history,   \* the store when the last count_devices call began
    eps,            \* group_devices_by_dbscan's eps, hundredths of a metre
    min_samples,    \* group_devices_by_dbscan's min_samples
    dbscan,         \* <<n>>: what group_devices_by_dbscan returned
    arrivals,       \* every sample passed to update_rssi_history, in order
    avg_rssi,       \* what the last update_rssi_history call returned
    readings,       \* <<lower, higher>>: the RSSI values passed to calculate_distance
    estimates,      \* what possible_algorithm.calculate_distance returned for them
    estimates_bd    \* what bluetoothDetection.calculate_distance returned for them

pipeline_vars == <<rssi_history, pc, cycle, devices, distances, groups, people,
                   users, outcome, prev_outcome, prev_history>>
grouper_vars == <<eps, min_samples, dbscan>>
record_vars == <<arrivals, avg_rssi>>
distance_vars == <<readings, estimates, estimates_bd>>
vars == <<pipeline_vars, grouper_vars, record_vars, distance_vars>>

Device == [address : Addresses, rssi : RssiValues]

\* A scan returns one device per address, in any order.
Batches ==
    {s \in UNION {[1..k -> Device] : k \in 0..Cardinality(Addresses)} :
        \A i, j \in 1..Len(s) : i # j => s[i].address # s[j].address}

EmptyHistory == [a \in {} |-> <<>>]

\* The state when continuous_count starts with the store holding hist.
Start(hist) ==
    /\ rssi_history = hist
    /\ pc = "scan"
    /\ cycle = 0
    /\ devices = <<>>
    /\ distances = <<>>
    /\ groups = <<>>
    /\ people = <<>>
    /\ users = <<>>
    /\ outcome = "idle"
    /\ prev_outcome = "idle"
    /\ prev_history = hist
    /\ eps = 0
    /\ min_samples = 0
    /\ dbscan = <<>>
    /\ arrivals = <<>>
    /\ avg_rssi = <<>>
    /\ readings = <<>>
    /\ estimates = <<>>
    /\ estimates_bd = <<>>

Init == Start(EmptyHistory)

\* count_devices, BleakScanner.discover returning batch.
CountDevices(batch) ==
    /\ pc = "scan"
    /\ LET r == count_devices(rssi_history, batch)
       IN  /\ rssi_history' = r.hist
           /\ distances' = r.distances
           /\ groups' = r.groups
           /\ people' = r.people
           /\ users' = r.users
           /\ outcome' = r.outcome
    /\ prev_outcome' = outcome
    /\ prev_history' = rssi_history
    /\ devices' = batch
    /\ cycle' = cycle + 1
    /\ pc' = "sleep"
    /\ UNCHANGED <<grouper_vars, record_vars, distance_vars>>

\* A failed scan handled as an empty one (as scan_devices of
\* frequencyOfDevices.py returns [] on error): every tracked address is
\* marked missing.
ScanFailsAsEmptyScan ==
    /\ pc = "scan"
    /\ outcome' = "scan_failed"
    /\ prev_outcome' = outcome
    /\ devices' = <<>>
    /\ distances' = <<>>
    /\ groups' = <<>>
    /\ people' = <<>>
    /\ users' = <<>>
    /\ prev_history' = rssi_history
    /\ rssi_history' = mark_missing_devices(rssi_history, {})
    /\ cycle' = cycle + 1
    /\ pc' = "sleep"
    /\ UNCHANGED <<grouper_vars, record_vars, distance_vars>>

\* count_devices, BleakScanner.discover raising: the except of line 138
\* prints the error and the call returns.
ScanFails ==
    /\ pc = "scan"
    /\ outcome' = "scan_failed"
    /\ prev_outcome' = outcome
    /\ devices' = <<>>
    /\ distances' = <<>>
    /\ groups' = <<>>
    /\ people' = <<>>
    /\ users' = <<>>
    /\ prev_history' = rssi_history
    /\ cycle' = cycle + 1
    /\ pc' = "sleep"
    /\ UNCHANGED <<rssi_history, grouper_vars, record_vars, distance_vars>>

\* await asyncio.sleep(SCAN_INTERVAL), then the next turn of the loop.
Sleep ==
    /\ pc = "sleep"
    /\ pc' = "scan"
    /\ UNCHANGED <<rssi_history, cycle, devices, distances, groups, people,
                   users, outcome, prev_outcome, prev_history, grouper_vars,
                   record_vars, distance_vars>>

Next ==
    \/ \E batch \in Batches : cycle < MaxCycles /\ CountDevices(batch)
    \/ cycle < MaxCycles /\ ScanFails
    \/ Sleep

Spec == Init /\ [][Next]_vars

\* ------------------------------------------------ long runs, one address

\* One device that is either seen at -60 dBm or not seen.
MaxDeepCycles == 15
DeepBatches == {<<>>, <<[address |-> "a1", rssi |-> -60]>>}

NextAttrition ==
    \/ \E batch \in DeepBatches : cycle < MaxDeepCycles /\ CountDevices(batch)
    \/ Sleep

SpecAttrition == Init /\ [][NextAttrition]_vars

\* -------------------------------------------- update_rssi_history alone

MaxCalls == 15
SampleValues == {-60, -40}

\* update_rssi_history("a1", rssi), called on its own.
RecordSample(rssi) ==
    /\ rssi_history' = update_rssi_history(rssi_history, "a1", rssi)
    /\ avg_rssi' = Mean(rssi_history'["a1"])
    /\ arrivals' = Append(arrivals, rssi)
    /\ UNCHANGED <<pc, cycle, devices, distances, groups, people, users,
                   outcome, prev_outcome, prev_history, grouper_vars,
                   distance_vars>>

NextRecord == \E rssi \in SampleValues : Len(arrivals) < MaxCalls /\ RecordSample(rssi)

SpecRecord == Init /\ [][NextRecord]_vars

\* ------------------------------------------------------ the groupers alone

MaxLen == 4
DistanceValues == {100, 105, 110, 130, 500}
EpsValues == {10, 20}
MinSamplesValues == {1, 2, 3}

DistanceLists == UNION {[1..k -> DistanceValues] : k \in 0..MaxLen}

InitGroup ==
    /\ rssi_history = EmptyHistory
    /\ pc = "group"
    /\ cycle = 0
    /\ devices = <<>>
    /\ distances \in DistanceLists
    /\ groups = <<>>
    /\ people = <<>>
    /\ users = <<>>
    /\ outcome = "idle"
    /\ prev_outcome = "idle"
    /\ prev_history = EmptyHistory
    /\ eps \in EpsValues
    /\ min_samples \in MinSamplesValues
    /\ dbscan = <<>>
    /\ arrivals = <<>>
    /\ avg_rssi = <<>>
    /\ readings = <<>>
    /\ estimates = <<>>
    /\ estimates_bd = <<>>

\* people_count = group_devices_by_proximity(distances)
GroupByProximity ==
    /\ people = <<>>
    /\ groups' = group_devices_by_proximity(distances)
    /\ people' = <<Len(groups')>>
    /\ UNCHANGED <<rssi_history, pc, cycle, devices, distances, users, outcome,
                   prev_outcome, prev_history, grouper_vars, record_vars,
                   distance_vars>>

\* people_count = group_devices_by_dbscan(distances, eps, min_samples)
GroupByDbscan ==
    /\ dbscan = <<>>
    /\ dbscan' = <<group_devices_by_dbscan(distances, eps, min_samples)>>
    /\ UNCHANGED <<pipeline_vars, eps, min_samples, record_vars, distance_vars>>

NextGroup == GroupByProximity \/ GroupByDbscan

SpecGroup == InitGroup /\ [][NextGroup]_vars

\* ------------------------------------------- a store after a long run

\* The store after a1 was seen once, not seen for LongRunLen - 1 cycles
\* (mark_missing_devices appends without trimming, so the list reaches
\* LongRunLen entries) and then seen LongRunLen times at -76 dBm (each
\* update appends one sample and pops one).
LongRunLen == 47
MaxRangeCycles == 4
LongRunHistory == [a \in {"a1"} |-> [i \in 1..LongRunLen |-> -76]]
RangeBatches ==
    {<<>>, <<[address |-> "a1", rssi |-> -76]>>,
     <<[address |-> "a1", rssi |-> -77]>>}

InitRange == Start(LongRunHistory)

NextRange ==
    \/ \E batch \in RangeBatches : cycle < MaxRangeCycles /\ CountDevices(batch)
    \/ Sleep

SpecRange == InitRange /\ [][NextRange]_vars

\* ------------------------------------------- calculate_distance alone

\* Raw readings from very strong to barely receivable, around the
\* reference of -50 dBm.
RssiRange == -100 .. -30
ReadingPairs == {p \in RssiRange \X RssiRange : p[1] <= p[2]}

InitDistance ==
    /\ rssi_history = EmptyHistory
    /\ pc = "distance"
    /\ cycle = 0
    /\ devices = <<>>
    /\ distances = <<>>
    /\ groups = <<>>
    /\ people = <<>>
    /\ users = <<>>
    /\ outcome = "idle"
    /\ prev_outcome = "idle"
    /\ prev_history = EmptyHistory
    /\ eps = 0
    /\ min_samples = 0
    /\ dbscan = <<>>
    /\ arrivals = <<>>
    /\ avg_rssi = <<>>
    /\ readings \in ReadingPairs
    /\ estimates = <<>>
    /\ estimates_bd = <<>>

\* calculate_distance(rssi) of possible_algorithm.py on both readings.
CalculateDistance ==
    /\ estimates = <<>>
    /\ estimates' = <<calculate_distance(readings[1], 1),
                      calculate_distance(readings[2], 1)>>
    /\ UNCHANGED <<pipeline_vars, grouper_vars, record_vars, readings,
                   estimates_bd>>

\* calculate_distance(device.rssi) of bluetoothDetection.py on both readings.
CalculateDistanceBD ==
    /\ estimates_bd = <<>>
    /\ estimates_bd' = <<bluetoothDetection_calculate_distance(readings[1]),
                         bluetoothDetection_calculate_distance(readings[2])>>
    /\ UNCHANGED <<pipeline_vars, grouper_vars, record_vars, readings,
                   estimates>>

NextDistance == CalculateDistance \/ CalculateDistanceBD

SpecDistance == InitDistance /\ [][NextDistance]_vars

\* ================================================================ claims

Min(a, b) == IF a <= b THEN a ELSE b

\* The last count_devices call ran to the grouping (mark_missing_devices
\* included).
Completed == outcome \in {"ok", "estimate_failed"}

HistoryOf(hist, a) == IF a \in DOMAIN hist THEN hist[a] ELSE <<>>

\* The number of sentinels at the end of a history: the cycles in a row in
\* which the address was marked missing.
RECURSIVE TrailingMissing(_)
TrailingMissing(s) ==
    IF s = <<>> \/ s[Len(s)] # MISSING THEN 0
    ELSE 1 + TrailingMissing(SubSeq(s, 1, Len(s) - 1))

\* ---------------------------------------------------------------- C1
\* C1: after any sequence of scan cycles the stored history of every
\* tracked address has at most N = 10 samples.
C1_HistoryBounded ==
    \A a \in DOMAIN rssi_history : Len(rssi_history[a]) <= HISTORY_LIMIT

\* ---------------------------------------------------------------- C2
\* C2: a tracked address absent from 10 cycles in a row has a mean of 0
\* over its retained history, its distance is no estimate (not in range),
\* and the history-based estimate does not use it.
C2_AbsentDrivenToZero ==
    \A a \in DOMAIN rssi_history :
        TrailingMissing(rssi_history[a]) >= HISTORY_LIMIT =>
            /\ SeqSum(rssi_history[a]) = 0
            /\ ~InRange(calculate_distance(SeqSum(rssi_history[a]),
                                           Len(rssi_history[a])))
            /\ a \notin Eligible(rssi_history)

\* ---------------------------------------------------------------- C3
NoneReadings(batch) == {i \in 1..Len(batch) : batch[i].rssi = NoneRssi}

BatchAddresses(batch) == {batch[i].address : i \in 1..Len(batch)}

\* C3: a None reading skips only its own device: that address keeps its
\* history (and is not created), the cycle is not aborted, the other
\* observations are recorded, absent addresses are marked and a people
\* count is printed.
C3_MalformedReadingSkipped ==
    (cycle > 0 /\ NoneReadings(devices) # {}) =>
        /\ \A i \in NoneReadings(devices) :
              /\ devices[i].address \in DOMAIN rssi_history
                    <=> devices[i].address \in DOMAIN prev_history
              /\ HistoryOf(rssi_history, devices[i].address)
                    = HistoryOf(prev_history, devices[i].address)
        /\ outcome # "aborted"
        /\ people # <<>>
        /\ \A i \in (1..Len(devices)) \ NoneReadings(devices) :
              /\ devices[i].address \in DOMAIN rssi_history
              /\ LET h == rssi_history[devices[i].address]
                 IN  h # <<>> /\ h[Len(h)] = devices[i].rssi
        /\ \A a \in (DOMAIN prev_history) \ BatchAddresses(devices) :
              rssi_history[a] = Append(prev_history[a], MISSING)

\* ---------------------------------------------------------------- C4
\* The threshold of frequencyOfDevices.py, line 45 (device.rssi >= -80).
MIN_SIGNAL_RSSI == -80

WeakReadings(batch) ==
    {i \in 1..Len(batch) :
        batch[i].rssi # NoneRssi /\ batch[i].rssi < MIN_SIGNAL_RSSI}

\* C4: an observation whose raw RSSI is below the threshold never reaches
\* the store: it creates no tracked address, its sample is appended to no
\* history, and a batch of weak observations only yields no distance.
C4_WeakReadingDropped ==
    (cycle > 0 /\ WeakReadings(devices) # {}) =>
        /\ \A i \in WeakReadings(devices) :
              LET a == devices[i].address
              IN  /\ a \in DOMAIN rssi_history => a \in DOMAIN prev_history
                  /\ a \in DOMAIN prev_history =>
                        rssi_history[a] \in
                            {prev_history[a], Append(prev_history[a], MISSING)}
        /\ Len(distances) <= Len(devices) - Cardinality(WeakReadings(devices))

\* ---------------------------------------------------------------- C5
RECURSIVE Flatten(_)
Flatten(gs) == IF gs = <<>> THEN <<>> ELSE Head(gs) \o Flatten(Tail(gs))

Count(s, x) == Cardinality({i \in 1..Len(s) : s[i] = x})

\* The adjacent pairs of an ascending list that lie further apart than the
\* tolerance.
WideGaps(flat) ==
    {i \in 1..(Len(flat) - 1) : flat[i + 1] - flat[i] > DISTANCE_TOLERANCE}

\* C5: the groups, concatenated, are the input in ascending order; within a
\* group every element is within the tolerance of the one before it, and a
\* group starts exactly where the gap to the preceding element exceeds the
\* tolerance; so there are 0 groups for no input and otherwise 1 + the
\* number of wide gaps ([1.0, 1.1, 1.3] is 1 group, [1.0, 5.0] is 2).
C5_ChainedGrouping ==
    people # <<>> =>
        LET flat == Flatten(groups)
        IN  /\ Len(flat) = Len(distances)
            /\ \A x \in Range(distances) : Count(flat, x) = Count(distances, x)
            /\ \A i \in 1..(Len(flat) - 1) : flat[i] <= flat[i + 1]
            /\ \A g \in 1..Len(groups) :
                  /\ groups[g] # <<>>
                  /\ \A i \in 1..(Len(groups[g]) - 1) :
                        groups[g][i + 1] - groups[g][i] <= DISTANCE_TOLERANCE
            /\ \A g \in 1..(Len(groups) - 1) :
                  groups[g + 1][1] - groups[g][Len(groups[g])]
                      > DISTANCE_TOLERANCE
            /\ Len(groups) = IF distances = <<>> THEN 0
                             ELSE 1 + Cardinality(WideGaps(flat))
            /\ people = <<Len(groups)>>
            /\ distances = <<100, 110, 130>> => Len(groups) = 1
            /\ distances = <<100, 500>> => Len(groups) = 2

\* The chain holds although first and last differ by more than the
\* tolerance.
C5_Witness ==
    /\ pc = "group"
    /\ distances = <<130, 100, 110>>
    /\ groups = << <<100, 110, 130>> >>
    /\ people = <<1>>

\* ---------------------------------------------------------------- C6
\* The points with at least min_samples points within eps, themselves
\* counted.
CorePoints(data, e, ms) ==
    {i \in 1..Len(data) :
        Cardinality({j \in 1..Len(data) : Abs(data[i] - data[j]) <= e}) >= ms}

\* The points with at least min_samples OTHER points within eps.
CorePointsByOthers(data, e, ms) ==
    {i \in 1..Len(data) :
        Cardinality({j \in (1..Len(data)) \ {i} :
                        Abs(data[i] - data[j]) <= e}) >= ms}

\* The core points density-reachable from those of S.
RECURSIVE ReachableCore(_, _, _, _)
ReachableCore(S, core, data, e) ==
    LET S1 == S \cup {j \in core : \E i \in S : Abs(data[i] - data[j]) <= e}
    IN  IF S1 = S THEN S ELSE ReachableCore(S1, core, data, e)

\* The number of clusters over the core points `core`, floored to 1 for a
\* non-empty input.
DensityCount(core, data, e) ==
    IF data = <<>> THEN 0
    ELSE Max(Cardinality({ReachableCore({i}, core, data, e) : i \in core}), 1)

\* The points that are not core and within eps of no core point.
NoisePoints(core, data, e) ==
    {i \in (1..Len(data)) \ core :
        \A j \in core : Abs(data[i] - data[j]) > e}

\* C6, as claimed: the count of group_devices_by_dbscan is that of the
\* clusters whose core points have at least min_samples other points within
\* eps (0 for no input, floored to 1 otherwise).
C6_DbscanCoreByOthers ==
    dbscan # <<>> =>
        dbscan[1] = DensityCount(CorePointsByOthers(distances, eps, min_samples),
                                 distances, eps)

\* C6, amended: the count of group_devices_by_dbscan is that of the
\* clusters whose core points have at least min_samples points within eps,
\* the point itself counted (0 for no input, floored to 1 otherwise).
C6_DbscanCount ==
    dbscan # <<>> =>
        dbscan[1] = DensityCount(CorePoints(distances, eps, min_samples),
                                 distances, eps)

\* Two points form a cluster, a third is noise and is not counted.
C6_Witness ==
    /\ dbscan = <<1>>
    /\ min_samples = 2
    /\ CorePoints(distances, eps, min_samples) # {}
    /\ NoisePoints(CorePoints(distances, eps, min_samples), distances, eps) # {}

\* ---------------------------------------------------------------- C7
LastSamples(s, k) == SubSeq(s, Len(s) - k + 1, Len(s))

\* C7: after k >= 1 calls for one address the history is the last
\* min(k, 10) samples in arrival order and the value returned is their
\* arithmetic mean.
C7_RetainsLastSamples ==
    arrivals # <<>> =>
        LET k == Min(Len(arrivals), HISTORY_LIMIT)
        IN  /\ rssi_history["a1"] = LastSamples(arrivals, k)
            /\ avg_rssi = <<SeqSum(LastSamples(arrivals, k)), k>>

\* 15 calls: the 10 most recent samples are kept, the first 5 are gone.
C7_Witness ==
    /\ Len(arrivals) = 15
    /\ rssi_history["a1"] = SubSeq(arrivals, 6, 15)
    /\ SubSeq(arrivals, 1, 5) = <<-40, -40, -40, -40, -40>>
    /\ avg_rssi = <<-600, 10>>

\* ---------------------------------------------------------------- C8
\* The distance count_devices computes for a device of the batch: from the
\* mean of its history after the sample is recorded.
SmoothedDistance(hist, device) ==
    LET s == TrimOldest(Append(HistoryOf(hist, device.address), device.rssi))
    IN  calculate_distance(SeqSum(s), Len(s))

RECURSIVE WithinMaxRange(_, _, _)
WithinMaxRange(hist, batch, i) ==
    IF i > Len(batch) THEN <<>>
    ELSE LET d == SmoothedDistance(hist, batch[i])
         IN  (IF d <= DISTANCE_LIMIT * CM THEN <<d>> ELSE <<>>)
             \o WithinMaxRange(hist, batch, i + 1)

\* C8: the distances handed to the grouper are exactly those of the
\* batch's observations that do not exceed DISTANCE_LIMIT.
C8_PassedIffWithinMaxRange ==
    (Completed /\ NoneReadings(devices) = {}) =>
        distances = WithinMaxRange(prev_history, devices, 1)

\* ---------------------------------------------------------------- C9
\* C9: a failed scan changes no history and prints no count, and the loop
\* goes on: it is at its sleep, or past it at the next count_devices call.
C9_ScanFailureSkipsCycle ==
    /\ outcome = "scan_failed" =>
          /\ rssi_history = prev_history
          /\ people = <<>>
          /\ users = <<>>
          /\ distances = <<>>
          /\ pc \in {"sleep", "scan"}

\* A scan failed with addresses tracked, and the next scan was counted.
C9_Witness ==
    /\ prev_outcome = "scan_failed"
    /\ outcome = "ok"
    /\ prev_history # EmptyHistory
    /\ devices # <<>>
    /\ people # <<>>

\* --------------------------------------------------------------- C10
\* The orders in which a batch of distinct devices can be processed.
Orders(batch) ==
    {t \in [1..Len(batch) -> Range(batch)] : Range(t) = Range(batch)}

\* C10: from an empty store, every processing order of the same batch
\* leaves the same store and prints the same counts.
C10_OrderIndependent ==
    (cycle = 1 /\ outcome # "scan_failed") =>
        \A t \in Orders(devices) :
            LET r == count_devices(EmptyHistory, t)
            IN  /\ r.hist = rssi_history
                /\ r.people = people
                /\ r.users = users

\* --------------------------------------------------------------- C11
\* 10 ^ ((referenceRssiAt1m - rssi) / (10 * pathLossExponent)) in millionths
\* of a metre.
PathLossDistance(rssi, referenceRssiAt1m, pathLossExponent) ==
    Pow10Micro(referenceRssiAt1m - rssi, 10 * pathLossExponent)

\* Millionths of a metre rounded to hundredths.
ToHundredths(micro) == (micro + 5000) \div 10000

\* What the claim lists for one calculate_distance: at or below the
\* reference the result is at least 1.0 m, the lower reading never gets the
\* smaller distance, and the reference itself gives exactly 1.0 m.
DistanceContract(rssis, ds, reference, one) ==
    /\ \A i \in 1..2 : rssis[i] <= reference => ds[i] >= one
    /\ ds[1] >= ds[2]
    /\ \A i \in 1..2 : rssis[i] = reference => ds[i] = one

\* possible_algorithm.calculate_distance returns the formula's value to two
\* decimals and meets the three properties.
C11_PossibleAlgorithmDistance ==
    estimates # <<>> =>
        /\ \A i \in 1..2 :
              estimates[i] =
                  ToHundredths(PathLossDistance(readings[i], 0 - RSSI_AT_ONE,
                                                PATH_LOSS_EXP))
        /\ DistanceContract(readings, estimates, 0 - RSSI_AT_ONE, CM)

\* bluetoothDetection.calculate_distance meets the three properties.
C11_BluetoothDetectionContract ==
    estimates_bd # <<>> =>
        DistanceContract(readings, estimates_bd, BD_RSSI_AT_1M, 1000000)

\* C11: each calculate_distance computes 10 ^ ((referenceRssiAt1m - rssi) /
\* (10 * pathLossExponent)); for rssi <= referenceRssiAt1m the result is at
\* least 1.0, a lower rssi never gives a smaller distance than a higher one,
\* and rssi = referenceRssiAt1m gives exactly 1.0.
C11_DistanceFormula ==
    /\ C11_PossibleAlgorithmDistance
    /\ C11_BluetoothDetectionContract
    /\ estimates_bd # <<>> =>
          \A i \in 1..2 :
              estimates_bd[i] =
                  PathLossDistance(readings[i], BD_RSSI_AT_1M, BD_PATH_LOSS_EXP)

\* --------------------------------------------------------------- C12
\* The reading the batch holds for address a.
ReadingOf(batch, a) ==
    batch[CHOOSE i \in 1..Len(batch) : batch[i].address = a].rssi

\* new is old with exactly the sample x added at the end (the oldest entry
\* possibly dropped to make room).
OneNewSample(old, new, x) ==
    new \in {Append(old, x), Tail(Append(old, x))}

\* mark_missing_devices applied to the store with any set of active
\* addresses: one sentinel for each tracked address outside the set, nothing
\* else touched.
MarkMissingFrame ==
    \A active \in SUBSET Addresses :
        LET marked == mark_missing_devices(rssi_history, active)
        IN  /\ DOMAIN marked = DOMAIN rssi_history
            /\ \A a \in DOMAIN rssi_history :
                  marked[a] = IF a \in active THEN rssi_history[a]
                              ELSE Append(rssi_history[a], MISSING)

\* C12: mark_missing_devices appends exactly one sentinel 0 to every tracked
\* address not in active_devices, leaves the others unchanged and keeps the
\* set of tracked addresses; so after every completed cycle each seen
\* address has exactly one new raw sample and no sentinel, each unseen
\* tracked address exactly one sentinel, and no tracked address is ever lost.
C12_OneSamplePerCycle ==
    /\ MarkMissingFrame
    /\ DOMAIN prev_history \subseteq DOMAIN rssi_history
    /\ Completed =>
          /\ DOMAIN rssi_history = DOMAIN prev_history \cup BatchAddresses(devices)
          /\ \A a \in BatchAddresses(devices) :
                OneNewSample(HistoryOf(prev_history, a), rssi_history[a],
                             ReadingOf(devices, a))
          /\ \A a \in DOMAIN prev_history \ BatchAddresses(devices) :
                rssi_history[a] = Append(prev_history[a], MISSING)

\* A completed cycle that saw one tracked address and missed another.
C12_Witness ==
    /\ Completed
    /\ cycle >= 2
    /\ \E a \in BatchAddresses(devices) : a \in DOMAIN prev_history
    /\ \E a \in DOMAIN prev_history \ BatchAddresses(devices) :
          rssi_history[a][Len(rssi_history[a])] = MISSING

\* --------------------------------------------------------------- C13
\* clustering.labels_ for the distances, eps and min_samples of the state.
Labels ==
    DbscanLabels(distances, eps, min_samples,
                 [i \in 1..Len(distances) |-> -1], 1, 0)

\* The number of maximal runs of the sorted list whose adjacent gaps are at
\* most e.
Runs(sorted, e) ==
    IF sorted = <<>> THEN 0
    ELSE 1 + Cardinality({i \in 1..(Len(sorted) - 1) :
                             sorted[i + 1] - sorted[i] > e})

C14_WellFormedCycleCompletes ==
    (outcome \in {"ok", "estimate_failed", "aborted"}
        /\ NoneReadings(devices) = {}) =>
        /\ Completed
        /\ people # <<>>
        /\ \A a \in BatchAddresses(devices) :
              /\ a \in DOMAIN rssi_history
              /\ rssi_history[a] # <<>>
              /\ rssi_history[a][Len(rssi_history[a])] = ReadingOf(devices, a)


=============================================================================
